---- MODULE Spec2Model ----
(***************************************************************************)
(* Model of blosc2/c2array.py: the remote array proxy C2Array, the slice   *)
(* serialiser slice_to_string and the response decoder fetch_data.         *)
(*                                                                         *)
(* Strings that the code builds (the wire slice string) are sequences of   *)
(* one-character strings, so that rendering and re-parsing are computed.   *)
(* An optional value is <<>> (Python None) or <<v>>.                       *)
(***************************************************************************)
EXTENDS Integers, Sequences, FiniteSets, TLC

VARIABLES
  hstate,        \* "uninitialized" | "opening" | "ready" | "failed"
  path,          \* self.path
  sub_url,       \* self.sub_url
  auth_cookie,   \* self.auth_cookie
  meta,          \* self.meta: the JSON object of the info endpoint
  infoReqs,      \* the requests C2Array.__init__ handed to httpx.get
  infoResp,      \* the response to the info request, once it arrived
  openExc,       \* what C2Array.__init__ raised ("none" while it has not)
  pc,            \* per caller: position inside __getitem__ / an accessor
  expr,          \* per caller: the index expression passed to __getitem__
  slice_,        \* per caller: the local slice_ after slice_to_string
  reqs,          \* per caller: the requests the running call handed to httpx.get
  resp,          \* per caller: the response httpx.get returned
  tried,         \* per caller: the interpretations fetch_data attempted
  result,        \* per caller: what the call returned or raised
  failedBefore,  \* an earlier __getitem__ on this handle raised
  cstage,        \* codec specification: "in" | "encoded" | "parsed"
  cexpr,         \* codec specification: the expression under test
  cwire,         \* codec specification: slice_to_string(cexpr)
  cback          \* codec specification: the reference parser's reading of cwire

handleVars == <<hstate, path, sub_url, auth_cookie, meta, infoReqs, infoResp, openExc>>
callVars   == <<pc, expr, slice_, reqs, resp, tried, result, failedBefore>>
codecVars  == <<cstage, cexpr, cwire, cback>>
vars       == <<hstate, path, sub_url, auth_cookie, meta, infoReqs, infoResp, openExc,
                pc, expr, slice_, reqs, resp, tried, result, failedBefore,
                cstage, cexpr, cwire, cback>>

----------------------------------------------------------------------------
(* Bounds *)

\* Index values of the client specifications range over -1 .. MaxIdx.
MaxIdx == 2
\* Index values of the codec specification range over -1 .. MaxInt (two digits).
MaxInt == 10
\* Longest tuple of per-axis terms.
MaxTerms == 2
\* Length of the one-dimensional remote array 0 .. ArrayLen-1.
ArrayLen == 3
\* Concurrent callers of the concurrent specification.
NumThreads == 2

----------------------------------------------------------------------------
(* Python values *)

None == <<>>
Some(v) == <<v>>

IntTerm(n) == [tag |-> "int", v |-> n]
SliceTerm(a, b, s) == [tag |-> "slice", start |-> a, stop |-> b, step |-> s]
\* True: an instance of int whose str() is not a decimal numeral.
BoolTerm == [tag |-> "bool"]
\* Any value that is neither an int nor a slice (a float, a str, Ellipsis).
OtherTerm == [tag |-> "other"]

\* slice(None)
FullSlice == SliceTerm(None, None, None)

Absent == [kind |-> "absent"]
Single(t) == [kind |-> "single", term |-> t]
Tuple(ts) == [kind |-> "tuple", terms |-> ts]

Opt(S) == {None} \cup {Some(v) : v \in S}
Steps == {None, Some(1), Some(2)}

TermsOver(S) ==
  {IntTerm(n) : n \in S}
    \cup {SliceTerm(a, b, s) : a \in Opt(S), b \in Opt(S), s \in Steps}
    \cup {BoolTerm, OtherTerm}

----------------------------------------------------------------------------
(* str() and the f-string of slice_to_string *)

Digits == <<"0", "1", "2", "3", "4", "5", "6", "7", "8", "9">>

RECURSIVE NatStr(_)
NatStr(n) ==
  IF n < 10 THEN <<Digits[n + 1]>>
  ELSE NatStr(n \div 10) \o <<Digits[(n % 10) + 1]>>

\* str(n) for an int n
IntStr(n) == IF n < 0 THEN <<"-">> \o NatStr(-n) ELSE NatStr(n)

\* `x or ''` followed by f"{x}": None and 0 are falsy and render as ''.
OrEmpty(o) == IF o = None \/ o = Some(0) THEN <<>> ELSE IntStr(o[1])

RECURSIVE Join(_)
\* ", ".join(parts)
Join(parts) ==
  IF parts = <<>> THEN <<>>
  ELSE IF Len(parts) = 1 THEN parts[1]
  ELSE parts[1] \o <<",", " ">> \o Join(Tail(parts))

Raised(e) == [exc |-> e, value |-> <<>>]
Returned(v) == [exc |-> "none", value |-> v]

RECURSIVE RenderLoop(_, _)
\* The for loop of slice_to_string over the terms left, slice_parts so far.
RenderLoop(terms, slice_parts) ==
  IF terms = <<>> THEN Returned(slice_parts)
  ELSE LET index == Head(terms) IN
    IF index.tag \in {"int", "bool"} THEN
      RenderLoop(Tail(terms),
                 Append(slice_parts,
                        IF index.tag = "int" THEN IntStr(index.v)
                        ELSE <<"T", "r", "u", "e">>))
    ELSE IF index.tag = "slice" THEN
      IF index.step \notin {Some(1), None} THEN Raised("IndexError")
      ELSE RenderLoop(Tail(terms),
                      Append(slice_parts,
                             OrEmpty(index.start) \o <<":">> \o OrEmpty(index.stop)))
    ELSE RenderLoop(Tail(terms), slice_parts)

RECURSIVE RenderLoopAnyStep(_, _)
RenderLoopAnyStep(terms, slice_parts) ==
  IF terms = <<>> THEN Returned(slice_parts)
  ELSE LET index == Head(terms) IN
    IF index.tag \in {"int", "bool"} THEN
      RenderLoopAnyStep(Tail(terms),
                        Append(slice_parts,
                               IF index.tag = "int" THEN IntStr(index.v)
                               ELSE <<"T", "r", "u", "e">>))
    ELSE IF index.tag = "slice" THEN
      RenderLoopAnyStep(Tail(terms),
                        Append(slice_parts,
                               OrEmpty(index.start) \o <<":">> \o OrEmpty(index.stop)))
    ELSE RenderLoopAnyStep(Tail(terms), slice_parts)

\* slice_to_string without the step check of line 59.
slice_to_string_AnyStep(e) ==
  IF e.kind = "absent"
     \/ (e.kind = "tuple" /\ e.terms = <<>>)
     \/ (e.kind = "single" /\ e.term = FullSlice)
  THEN Returned(<<>>)
  ELSE LET terms == IF e.kind = "tuple" THEN e.terms ELSE <<e.term>>
       IN Returned(Join(RenderLoopAnyStep(terms, <<>>).value))

slice_to_string(e) ==
  IF e.kind = "absent"
     \/ (e.kind = "tuple" /\ e.terms = <<>>)
     \/ (e.kind = "single" /\ e.term = FullSlice)
  THEN Returned(<<>>)
  ELSE LET terms == IF e.kind = "tuple" THEN e.terms ELSE <<e.term>>
           parts == RenderLoop(terms, <<>>)
       IN IF parts.exc # "none" THEN parts ELSE Returned(Join(parts.value))

----------------------------------------------------------------------------
(* The service's reading of a wire slice string: the grammar               *)
(*   "" | term (", " term)*     term := INTEGER | (INTEGER? ":" INTEGER?)  *)

IsDigit(c) == \E i \in 1..10 : Digits[i] = c
DigitVal(c) == (CHOOSE i \in 1..10 : Digits[i] = c) - 1

AllDigits(s) == s # <<>> /\ \A i \in 1..Len(s) : IsDigit(s[i])
IsInteger(s) ==
  s # <<>> /\ (IF s[1] = "-" THEN AllDigits(Tail(s)) ELSE AllDigits(s))

RECURSIVE StrNat(_, _)
StrNat(s, acc) ==
  IF s = <<>> THEN acc ELSE StrNat(Tail(s), acc * 10 + DigitVal(s[1]))

StrInt(s) == IF s[1] = "-" THEN 0 - StrNat(Tail(s), 0) ELSE StrNat(s, 0)

RECURSIVE SplitTerms(_, _)
\* The pieces of s between the separators ", "; cur is the piece being read.
SplitTerms(s, cur) ==
  IF s = <<>> THEN <<cur>>
  ELSE IF Len(s) >= 2 /\ s[1] = "," /\ s[2] = " "
    THEN <<cur>> \o SplitTerms(SubSeq(s, 3, Len(s)), <<>>)
  ELSE SplitTerms(Tail(s), Append(cur, s[1]))

OptBound(s) == IF s = <<>> THEN None ELSE Some(StrInt(s))

WellFormedTerm(piece) ==
  LET colons == {i \in 1..Len(piece) : piece[i] = ":"} IN
  IF colons = {} THEN IsInteger(piece)
  ELSE /\ Cardinality(colons) = 1
       /\ LET i == CHOOSE j \in colons : TRUE
              a == SubSeq(piece, 1, i - 1)
              b == SubSeq(piece, i + 1, Len(piece))
          IN (a = <<>> \/ IsInteger(a)) /\ (b = <<>> \/ IsInteger(b))

ParseTerm(piece) ==
  LET colons == {i \in 1..Len(piece) : piece[i] = ":"} IN
  IF colons = {} THEN IntTerm(StrInt(piece))
  ELSE LET i == CHOOSE j \in colons : TRUE IN
       SliceTerm(OptBound(SubSeq(piece, 1, i - 1)),
                 OptBound(SubSeq(piece, i + 1, Len(piece))),
                 None)

MatchesGrammar(s) ==
  s = <<>> \/
  LET pieces == SplitTerms(s, <<>>) IN
  \A i \in 1..Len(pieces) : WellFormedTerm(pieces[i])

\* The selection a wire string denotes: one term per axis, <<>> = everything.
ParseWire(s) ==
  IF ~MatchesGrammar(s) THEN [ok |-> FALSE, sel |-> <<>>]
  ELSE IF s = <<>> THEN [ok |-> TRUE, sel |-> <<>>]
  ELSE LET pieces == SplitTerms(s, <<>>) IN
       [ok |-> TRUE, sel |-> [i \in 1..Len(pieces) |-> ParseTerm(pieces[i])]]

----------------------------------------------------------------------------
(* Selections and what they select *)

\* The per-axis terms an index expression denotes.
SelOf(e) ==
  IF e.kind = "absent" THEN <<>>
  ELSE IF e.kind = "single" THEN <<e.term>>
  ELSE e.terms

IsIntTerm(t) == t.tag = "int"
IsUnitSlice(t) == t.tag = "slice" /\ t.step \in {None, Some(1)}
\* Only integer terms and unit-step (or unspecified-step) range terms.
Supported(e) == \A i \in 1..Len(SelOf(e)) : IsIntTerm(SelOf(e)[i]) \/ IsUnitSlice(SelOf(e)[i])
HasBadStep(e) ==
  \E i \in 1..Len(SelOf(e)) :
    SelOf(e)[i].tag = "slice" /\ SelOf(e)[i].step \notin {None, Some(1)}
\* A term that is neither an int (bool included) nor a slice.
HasMalformedTerm(e) ==
  \E i \in 1..Len(SelOf(e)) : SelOf(e)[i].tag = "other"

\* A unit-step range starting at None starts at 0; an unspecified step is 1.
CanonTerm(t) ==
  IF t.tag = "slice"
  THEN SliceTerm(IF t.start = None THEN Some(0) ELSE t.start, t.stop, None)
  ELSE t

RECURSIVE StripFull(_)
\* Trailing full ranges select what omitting them selects.
StripFull(sel) ==
  IF sel # <<>> /\ sel[Len(sel)] = SliceTerm(Some(0), None, None)
  THEN StripFull(SubSeq(sel, 1, Len(sel) - 1))
  ELSE sel

Canon(sel) == StripFull([i \in 1..Len(sel) |-> CanonTerm(sel[i])])

\* Same start and stop on every axis.
SameSelection(sel1, sel2) == Canon(sel1) = Canon(sel2)

\* The remote array: one axis, the integers 0 .. ArrayLen-1.
ArrayData == [i \in 1..ArrayLen |-> i - 1]

Clamp(o, n, dflt) ==
  IF o = None THEN dflt
  ELSE LET v == o[1] IN
       IF v < 0 THEN (IF v + n < 0 THEN 0 ELSE v + n)
       ELSE IF v > n THEN n ELSE v

\* arr[sel] for a one-axis array; ok is FALSE where indexing raises.
RegionOf(sel, arr) ==
  LET n == Len(arr) IN
  IF sel = <<>> THEN [ok |-> TRUE, ndim |-> 1, data |-> arr]
  ELSE IF Len(sel) > 1 THEN [ok |-> FALSE, ndim |-> 0, data |-> <<>>]
  ELSE LET t == sel[1] IN
    IF t.tag = "int" THEN
      LET i == IF t.v < 0 THEN t.v + n ELSE t.v IN
      IF i >= 0 /\ i < n THEN [ok |-> TRUE, ndim |-> 0, data |-> <<arr[i + 1]>>]
      ELSE [ok |-> FALSE, ndim |-> 0, data |-> <<>>]
    ELSE LET lo == Clamp(t.start, n, 0)
             hi == Clamp(t.stop, n, n)
         IN [ok |-> TRUE, ndim |-> 1, data |-> SubSeq(arr, lo + 1, hi)]


----------------------------------------------------------------------------
(* HTTP: _xget and the two endpoints *)

Threads == 1..NumThreads

Paths == {"root/a.b2nd"}
BaseUrls == {"http://sub/"}
\* auth_cookie: None, the empty string, or a cookie.
Cookies == {None, Some(""), Some("c2tok")}

\* Python truthiness of `if auth_cookie:`
Truthy(cookie) == cookie # None /\ cookie[1] # ""

\* What _xget hands to httpx.get: the Cookie header is set iff auth_cookie is truthy.
xget(url, params, cookie) ==
  [url |-> url, params |-> params,
   headers |-> IF Truthy(cookie) THEN Some(cookie[1]) ELSE None]

InfoUrl(u, p) == <<u, "api/info/", p>>
FetchUrl(u, p) == <<u, "api/fetch/", p>>

\* response.raise_for_status() passes
IsSuccess(r) == r.status = 200

NoResp == [status |-> 0, content |-> [fmt |-> "none", ndim |-> 0, data |-> <<>>]]
NoResult == [exc |-> "unset", value |-> <<>>]
NoExpr == [kind |-> "unset"]

MetaFields == {"shape", "chunks", "blocks", "dtype", "ext_shape"}
RequiredFields == {"shape", "chunks", "blocks", "dtype"}

MetaValue(f) == IF f = "dtype" THEN "int64" ELSE <<ArrayLen>>

\* The JSON objects the info endpoint may answer with: every field, or one missing.
MetaBodies ==
  {[f \in F |-> MetaValue(f)] : F \in {MetaFields} \cup {MetaFields \ {g} : g \in MetaFields}}

NoMeta == [f \in {} |-> 0]

\* Responses of the info endpoint: a status, and a body that is JSON or not.
InfoResponses ==
  {[status |-> st, json |-> TRUE, body |-> b] : st \in {200, 404}, b \in MetaBodies}
    \cup {[status |-> 200, json |-> FALSE, body |-> NoMeta]}

NoInfoResp == [status |-> 0, json |-> FALSE, body |-> NoMeta]

Frame(data) == [fmt |-> "frame", ndim |-> 1, data |-> data]
Container(ndim, data) == [fmt |-> "container", ndim |-> ndim, data |-> data]
Garbage == [fmt |-> "garbage", ndim |-> 0, data |-> <<>>]

\* The bodies the fetch endpoint may answer a wire string with: a slice frame of
\* the region the string denotes, a container of that region, a container of the
\* complete array, or bytes that are neither.
Payloads(wire) ==
  LET p == ParseWire(wire)
      region == RegionOf(p.sel, ArrayData)
  IN {Container(1, ArrayData), Garbage}
       \cup (IF p.ok /\ region.ok
             THEN {Frame(region.data), Container(region.ndim, region.data)}
             ELSE {})

FetchResponses(wire) ==
  {[status |-> 404, content |-> Garbage]}
    \cup {[status |-> 200, content |-> c] : c \in Payloads(wire)}

----------------------------------------------------------------------------
(* fetch_data: decoding the response body *)

\* blosc2.decompress2(data): the bytes of a slice frame, or a failure.
decompress2(content) ==
  IF content.fmt = "frame"
  THEN {Returned([kind |-> "bytes", ndim |-> 1, data |-> content.data]),
        Raised("MemoryError")}
  ELSE {Raised("ValueError"), Raised("RuntimeError"), Raised("MemoryError")}

\* blosc2.ndarray_from_cframe(data): the array of a container, or a failure.
ndarray_from_cframe(content) ==
  IF content.fmt = "container"
  THEN Returned([kind |-> "ndarray", ndim |-> content.ndim, data |-> content.data])
  ELSE Raised("RuntimeError")

\* data[:] if data.ndim == 1 else data[()]: both read the whole container.
ReadAll(arr) ==
  IF arr.ndim = 1
  THEN [kind |-> "ndarray", ndim |-> 1, data |-> SubSeq(arr.data, 1, Len(arr.data))]
  ELSE [kind |-> "ndarray", ndim |-> arr.ndim, data |-> arr.data]

\* Which failures of decompress2 the except clause catches.
Caught(e) == e \in {"ValueError", "RuntimeError"}

\* fetch_data with a bare `except:` in place of `except (ValueError, RuntimeError):`.
DecodeCatchAll(content, d) ==
  IF d.exc = "none" THEN
    [tried |-> <<[as |-> "frame", exc |-> "none"]>>, result |-> d]
  ELSE LET a == ndarray_from_cframe(content) IN
    [tried |-> <<[as |-> "frame", exc |-> d.exc], [as |-> "container", exc |-> a.exc]>>,
     result |-> IF a.exc = "none" THEN Returned(ReadAll(a.value)) ELSE a]

\* The try/except of fetch_data for one outcome d of decompress2:
\* the attempts made, in order, and what fetch_data returns or raises.
Decode(content, d) ==
  IF d.exc = "none" THEN
    [tried |-> <<[as |-> "frame", exc |-> "none"]>>, result |-> d]
  ELSE IF ~Caught(d.exc) THEN
    [tried |-> <<[as |-> "frame", exc |-> d.exc]>>, result |-> d]
  ELSE LET a == ndarray_from_cframe(content) IN
    [tried |-> <<[as |-> "frame", exc |-> d.exc], [as |-> "container", exc |-> a.exc]>>,
     result |-> IF a.exc = "none" THEN Returned(ReadAll(a.value)) ELSE a]


----------------------------------------------------------------------------
(* Index expressions the callers pass *)

ClientTerms == TermsOver(-1..MaxIdx)

\* A tuple of n terms: term t at position p, the integer 0 elsewhere.
TupleAt(n, p, t) == Tuple([i \in 1..n |-> IF i = p THEN t ELSE IntTerm(0)])

\* None, (), every single term, every 1-tuple, and every longer tuple with one
\* arbitrary term at any position.
ClientExprs ==
  {Absent, Tuple(<<>>)}
    \cup {Single(t) : t \in ClientTerms}
    \cup {TupleAt(n, p, t) : n \in 1..MaxTerms, p \in 1..MaxTerms, t \in ClientTerms}

\* The expressions of the concurrent callers.
ThreadExprs ==
  {Single(IntTerm(1)),
   Single(SliceTerm(Some(0), Some(2), None)),
   Single(SliceTerm(None, None, Some(2)))}

CodecInts == (-1..MaxIdx) \cup {MaxInt}
CodecTerms == TermsOver(CodecInts)

RECURSIVE TuplesUpTo(_, _)
\* All sequences over T of length at most n.
TuplesUpTo(T, n) ==
  IF n = 0 THEN {<<>>}
  ELSE LET shorter == TuplesUpTo(T, n - 1) IN
       shorter \cup {Append(ts, t) : ts \in {x \in shorter : Len(x) = n - 1}, t \in T}

CodecExprs ==
  {Absent} \cup {Single(t) : t \in CodecTerms}
    \cup {Tuple(ts) : ts \in TuplesUpTo(CodecTerms, MaxTerms)}

----------------------------------------------------------------------------
(* State *)

IdleCalls ==
  /\ pc = [c \in Threads |-> "idle"]
  /\ expr = [c \in Threads |-> NoExpr]
  /\ slice_ = [c \in Threads |-> NoResult]
  /\ reqs = [c \in Threads |-> <<>>]
  /\ resp = [c \in Threads |-> NoResp]
  /\ tried = [c \in Threads |-> <<>>]
  /\ result = [c \in Threads |-> NoResult]
  /\ failedBefore = FALSE

NoHandle ==
  /\ hstate = "uninitialized"
  /\ path = ""
  /\ sub_url = ""
  /\ auth_cookie = None
  /\ meta = NoMeta
  /\ infoReqs = <<>>
  /\ infoResp = NoInfoResp
  /\ openExc = "none"

CodecOff ==
  /\ cstage = "off"
  /\ cexpr = NoExpr
  /\ cwire = NoResult
  /\ cback = [ok |-> FALSE, sel |-> <<>>]

\* Before C2Array(...) is called.
Init == NoHandle /\ IdleCalls /\ CodecOff

\* A handle that construction returned, with complete metadata.
InitReady ==
  /\ hstate = "ready"
  /\ path \in Paths
  /\ sub_url \in BaseUrls
  /\ auth_cookie \in {None, Some("c2tok")}
  /\ meta = [f \in MetaFields |-> MetaValue(f)]
  /\ infoReqs = <<xget(InfoUrl(sub_url, path), None, auth_cookie)>>
  /\ infoResp = [status |-> 200, json |-> TRUE, body |-> meta]
  /\ openExc = "none"
  /\ IdleCalls
  /\ CodecOff

\* An expression handed to slice_to_string.
InitCodec ==
  /\ NoHandle
  /\ IdleCalls
  /\ cstage = "in"
  /\ cexpr \in CodecExprs
  /\ cwire = NoResult
  /\ cback = [ok |-> FALSE, sel |-> <<>>]

----------------------------------------------------------------------------
(* C2Array.__init__ *)

\* Lines 85-89 up to httpx.get: the identity is stored, the info request issued.
OpenSend(p, u, a) ==
  /\ hstate = "uninitialized"
  /\ path' = p
  /\ sub_url' = u
  /\ auth_cookie' = a
  /\ infoReqs' = Append(infoReqs, xget(InfoUrl(u, p), None, a))
  /\ hstate' = "opening"
  /\ UNCHANGED <<meta, infoResp, openExc>>
  /\ UNCHANGED callVars
  /\ UNCHANGED codecVars

\* C2Array.__init__ without response.raise_for_status().
OpenRecvNoStatus(r) ==
  /\ hstate = "opening"
  /\ infoResp' = r
  /\ IF ~r.json THEN
       /\ openExc' = "JSONDecodeError"
       /\ hstate' = "failed"
       /\ meta' = meta
     ELSE
       /\ openExc' = "none"
       /\ hstate' = "ready"
       /\ meta' = r.body
  /\ UNCHANGED <<path, sub_url, auth_cookie, infoReqs>>
  /\ UNCHANGED callVars
  /\ UNCHANGED codecVars

\* The info response arrives: raise_for_status, response.json(), self.meta = json.
OpenRecv(r) ==
  /\ hstate = "opening"
  /\ infoResp' = r
  /\ IF ~IsSuccess(r) THEN
       /\ openExc' = "HTTPStatusError"
       /\ hstate' = "failed"
       /\ meta' = meta
     ELSE IF ~r.json THEN
       /\ openExc' = "JSONDecodeError"
       /\ hstate' = "failed"
       /\ meta' = meta
     ELSE
       /\ openExc' = "none"
       /\ hstate' = "ready"
       /\ meta' = r.body
  /\ UNCHANGED <<path, sub_url, auth_cookie, infoReqs>>
  /\ UNCHANGED callVars
  /\ UNCHANGED codecVars

----------------------------------------------------------------------------
(* C2Array.__getitem__ and fetch_data, one caller c *)

\* Line 105: slice_ = slice_to_string(slice_); an IndexError ends the call.
GetItem(c, e) ==
  /\ hstate = "ready"
  /\ pc[c] = "idle"
  /\ expr' = [expr EXCEPT ![c] = e]
  /\ LET s == slice_to_string(e) IN
     IF s.exc # "none" THEN
       /\ result' = [result EXCEPT ![c] = s]
       /\ pc' = [pc EXCEPT ![c] = "done"]
       /\ slice_' = slice_
     ELSE
       /\ slice_' = [slice_ EXCEPT ![c] = s]
       /\ pc' = [pc EXCEPT ![c] = "encoded"]
       /\ result' = result
  /\ UNCHANGED <<reqs, resp, tried, failedBefore>>
  /\ UNCHANGED handleVars
  /\ UNCHANGED codecVars

\* fetch with the wire string kept in one slot that every call writes.
FetchSendShared(c) ==
  /\ pc[c] = "encoded"
  /\ LET last == CHOOSE d \in Threads : slice_[d].exc = "none" IN
     reqs' = [reqs EXCEPT ![c] =
                Append(@, xget(FetchUrl(sub_url, path), Some(slice_[last].value), auth_cookie))]
  /\ pc' = [pc EXCEPT ![c] = "sent"]
  /\ UNCHANGED <<expr, slice_, resp, tried, result, failedBefore>>
  /\ UNCHANGED handleVars
  /\ UNCHANGED codecVars

\* Lines 106-108, 36, 19-23: the fetch request is handed to httpx.get.
FetchSend(c) ==
  /\ pc[c] = "encoded"
  /\ reqs' = [reqs EXCEPT ![c] =
                Append(@, xget(FetchUrl(sub_url, path), Some(slice_[c].value), auth_cookie))]
  /\ pc' = [pc EXCEPT ![c] = "sent"]
  /\ UNCHANGED <<expr, slice_, resp, tried, result, failedBefore>>
  /\ UNCHANGED handleVars
  /\ UNCHANGED codecVars

\* httpx.get returns the service's response.
FetchRecv(c, r) ==
  /\ pc[c] = "sent"
  /\ resp' = [resp EXCEPT ![c] = r]
  /\ pc' = [pc EXCEPT ![c] = "received"]
  /\ UNCHANGED <<expr, slice_, reqs, tried, result, failedBefore>>
  /\ UNCHANGED handleVars
  /\ UNCHANGED codecVars

\* fetch_data without response.raise_for_status().
FetchDecodeNoStatus(c) ==
  /\ pc[c] = "received"
  /\ \E d \in decompress2(resp[c].content) :
       /\ result' = [result EXCEPT ![c] = Decode(resp[c].content, d).result]
       /\ tried' = [tried EXCEPT ![c] = Decode(resp[c].content, d).tried]
  /\ pc' = [pc EXCEPT ![c] = "done"]
  /\ UNCHANGED <<expr, slice_, reqs, resp, failedBefore>>
  /\ UNCHANGED handleVars
  /\ UNCHANGED codecVars

\* Lines 24, 38-44: raise_for_status, then the try/except of fetch_data.
FetchDecode(c) ==
  /\ pc[c] = "received"
  /\ IF ~IsSuccess(resp[c]) THEN
       /\ result' = [result EXCEPT ![c] = Raised("HTTPStatusError")]
       /\ tried' = tried
     ELSE \E d \in decompress2(resp[c].content) :
       /\ result' = [result EXCEPT ![c] = Decode(resp[c].content, d).result]
       /\ tried' = [tried EXCEPT ![c] = Decode(resp[c].content, d).tried]
  /\ pc' = [pc EXCEPT ![c] = "done"]
  /\ UNCHANGED <<expr, slice_, reqs, resp, failedBefore>>
  /\ UNCHANGED handleVars
  /\ UNCHANGED codecVars

\* An accessor that asks the info endpoint again before reading.
AccessorRefetch(c, f) ==
  /\ hstate = "ready"
  /\ pc[c] = "idle"
  /\ infoReqs' = Append(infoReqs, xget(InfoUrl(sub_url, path), None, auth_cookie))
  /\ result' = [result EXCEPT ![c] =
                  IF f \in DOMAIN meta THEN Returned(meta[f]) ELSE Raised("KeyError")]
  /\ pc' = [pc EXCEPT ![c] = "read"]
  /\ UNCHANGED <<expr, slice_, reqs, resp, tried, failedBefore>>
  /\ UNCHANGED <<hstate, path, sub_url, auth_cookie, meta, infoResp, openExc>>
  /\ UNCHANGED codecVars

\* The properties shape, chunks, blocks, dtype, ext_shape: self.meta[f].
Accessor(c, f) ==
  /\ hstate = "ready"
  /\ pc[c] = "idle"
  /\ result' = [result EXCEPT ![c] =
                  IF f \in DOMAIN meta THEN Returned(meta[f]) ELSE Raised("KeyError")]
  /\ pc' = [pc EXCEPT ![c] = "read"]
  /\ UNCHANGED <<expr, slice_, reqs, resp, tried, failedBefore>>
  /\ UNCHANGED handleVars
  /\ UNCHANGED codecVars

\* The caller takes the value or the exception; its locals are gone.
Return(c) ==
  /\ pc[c] \in {"done", "read"}
  /\ failedBefore' = (failedBefore \/ (pc[c] = "done" /\ result[c].exc # "none"))
  /\ pc' = [pc EXCEPT ![c] = "idle"]
  /\ expr' = [expr EXCEPT ![c] = NoExpr]
  /\ slice_' = [slice_ EXCEPT ![c] = NoResult]
  /\ reqs' = [reqs EXCEPT ![c] = <<>>]
  /\ resp' = [resp EXCEPT ![c] = NoResp]
  /\ tried' = [tried EXCEPT ![c] = <<>>]
  /\ result' = [result EXCEPT ![c] = NoResult]
  /\ UNCHANGED handleVars
  /\ UNCHANGED codecVars

----------------------------------------------------------------------------
(* The codec alone *)

CodecEncode ==
  /\ cstage = "in"
  /\ cwire' = slice_to_string(cexpr)
  /\ cstage' = "encoded"
  /\ UNCHANGED <<cexpr, cback>>
  /\ UNCHANGED handleVars
  /\ UNCHANGED callVars

CodecParse ==
  /\ cstage = "encoded"
  /\ cwire.exc = "none"
  /\ cback' = ParseWire(cwire.value)
  /\ cstage' = "parsed"
  /\ UNCHANGED <<cexpr, cwire>>
  /\ UNCHANGED handleVars
  /\ UNCHANGED callVars

----------------------------------------------------------------------------
(* Specifications *)

Open ==
  \/ \E p \in Paths, u \in BaseUrls, a \in Cookies : OpenSend(p, u, a)
  \/ \E r \in InfoResponses : OpenRecv(r)

Call(c, E) ==
  \/ \E e \in E : GetItem(c, e)
  \/ FetchSend(c)
  \/ \E r \in FetchResponses(slice_[c].value) : FetchRecv(c, r)
  \/ FetchDecode(c)
  \/ \E f \in MetaFields : Accessor(c, f)
  \/ Return(c)

\* One caller: construction, then gets and accessor reads one after another.
Next == Open \/ Call(1, ClientExprs)

Spec == Init /\ [][Next]_vars

\* Several callers on one ready handle, their steps interleaved.
NextThreads == \E c \in Threads : Call(c, ThreadExprs)

SpecThreads == InitReady /\ [][NextThreads]_vars

\* slice_to_string and the service's parser on every bounded expression.
NextCodec == CodecEncode \/ CodecParse

SpecCodec == InitCodec /\ [][NextCodec]_vars


----------------------------------------------------------------------------
(* Properties *)

IsSet(e) == e.kind # "unset"

\* C1: an index expression with a range term whose step is set and not 1, alone
\* or at any position of a tuple, makes __getitem__ raise IndexError, and the
\* call has handed no request to httpx.get and received no response.
C1_BadStepRejectedBeforeFetch ==
  \A c \in Threads :
    (IsSet(expr[c]) /\ HasBadStep(expr[c])) =>
      /\ pc[c] = "done"
      /\ result[c] = Raised("IndexError")
      /\ reqs[c] = <<>>
      /\ resp[c] = NoResp
      /\ tried[c] = <<>>

\* A tuple whose second term carries step 2 was rejected.
C1_Witness ==
  /\ pc[1] = "done"
  /\ IsSet(expr[1])
  /\ expr[1] = Tuple(<<IntTerm(0), SliceTerm(Some(0), Some(2), Some(2))>>)
  /\ result[1] = Raised("IndexError")

\* C2: for an expression of integer terms and unit-step (or unspecified-step)
\* range terms, slice_to_string returns a string of the wire grammar, and the
\* reference parser reads from it the selection the expression denotes.
C2_RoundTrip ==
  (cstage \in {"encoded", "parsed"} /\ Supported(cexpr)) =>
    /\ cwire.exc = "none"
    /\ MatchesGrammar(cwire.value)
    /\ cstage = "parsed" => (cback.ok /\ SameSelection(cback.sel, SelOf(cexpr)))

\* What a call answered with a slice frame of its expression's region returns.
ViaFrame(e) ==
  LET body == Frame(RegionOf(SelOf(e), ArrayData).data)
      d == CHOOSE x \in decompress2(body) : x.exc = "none"
  IN Decode(body, d).result.value.data

\* C3: a get answered with the full-array container returns the region a get of
\* the same expression answered with a slice frame returns.
C3_CrossVariant ==
  \A c \in Threads :
    (/\ pc[c] = "done"
     /\ IsSet(expr[c])
     /\ Supported(expr[c])
     /\ RegionOf(SelOf(expr[c]), ArrayData).ok
     /\ IsSuccess(resp[c])
     /\ resp[c].content = Container(1, ArrayData)
     /\ result[c].exc = "none")
    => result[c].value.data = ViaFrame(expr[c])

\* The expressions slice_to_string answers with '' before looking at any term.
SelectsEverything(e) ==
  e.kind = "absent" \/ SelOf(e) = <<>> \/ (e.kind = "single" /\ e.term = FullSlice)

\* C4: a term that is neither an integer nor a range makes slice_to_string
\* raise IndexError, and a string it returns has one rendered term per term of
\* the expression.
C4_MalformedTermRejected ==
  cstage \in {"encoded", "parsed"} =>
    /\ HasMalformedTerm(cexpr) => cwire.exc = "IndexError"
    /\ (cwire.exc = "none" /\ ~SelectsEverything(cexpr)) =>
         Len(SplitTerms(cwire.value, <<>>)) = Len(SelOf(cexpr))

\* C5: when the info endpoint answers success with a JSON object lacking one of
\* shape, chunks, blocks, dtype, no handle is returned.
C5_MalformedMetadataRejected ==
  (/\ IsSuccess(infoResp)
   /\ infoResp.json
   /\ ~(RequiredFields \subseteq DOMAIN infoResp.body))
  => (hstate = "failed" /\ openExc # "none")

C6_Inv ==
  /\ Len(infoReqs) <= 1
  /\ hstate = "uninitialized" => infoReqs = <<>>
  /\ hstate # "uninitialized" =>
       infoReqs = <<[url |-> InfoUrl(sub_url, path), params |-> None,
                     headers |-> IF auth_cookie \in {None, Some("")}
                                 THEN None ELSE auth_cookie]>>
  /\ hstate = "ready" => (IsSuccess(infoResp) /\ openExc = "none")
  /\ (infoResp # NoInfoResp /\ ~IsSuccess(infoResp)) =>
       (hstate = "failed" /\ openExc = "HTTPStatusError")
  /\ hstate # "ready" =>
       \A c \in Threads : pc[c] = "idle" /\ reqs[c] = <<>> /\ result[c] = NoResult

C6_Step ==
  /\ (hstate' = "ready" /\ hstate # "ready") => (hstate = "opening" /\ IsSuccess(infoResp'))
  /\ hstate = "ready" => hstate' = "ready"
  /\ hstate = "failed" => hstate' = "failed"

\* C6: construction issues exactly one GET, to the info endpoint, and no fetch
\* request; the handle becomes ready at most once and only after that GET
\* returned success; on a non-success status construction raises, no handle
\* exists, and no call runs on a handle that is not ready.
C6_Lifecycle == [](C6_Inv) /\ [][C6_Step]_vars

\* Construction failed on a 404 after its one info request.
C6_Witness ==
  /\ hstate = "failed"
  /\ infoResp.status = 404
  /\ openExc = "HTTPStatusError"
  /\ Len(infoReqs) = 1

C7_Step ==
  /\ hstate = "ready" =>
       /\ UNCHANGED <<hstate, path, sub_url, auth_cookie, meta, infoReqs, infoResp>>
  /\ \A c \in Threads :
       (pc[c] = "idle" /\ pc'[c] = "read") => UNCHANGED <<reqs, infoReqs, resp>>

\* C7: on a ready handle no get and no accessor read, whatever its outcome,
\* changes path, base URL, auth cookie or the cached metadata, which stay what
\* construction fetched; an accessor read issues no request.
C7_HandleUnchanged == [][C7_Step]_vars /\ [](hstate = "ready" => meta = infoResp.body)

\* A get succeeded on a handle on which an earlier get had failed.
C7_Witness ==
  /\ failedBefore
  /\ pc[1] = "done"
  /\ result[1].exc = "none"
  /\ meta = infoResp.body

\* The one request a get of caller c issues.
ExpectedReq(c) ==
  [url |-> FetchUrl(sub_url, path),
   params |-> Some(slice_to_string(expr[c]).value),
   headers |-> IF auth_cookie \in {None, Some("")} THEN None ELSE auth_cookie]

\* C8: a get with an expression slice_to_string accepts issues exactly one GET, to
\* the fetch endpoint, with slice_ set to the wire string and the cookie attached
\* exactly when there is a (non-empty) auth cookie; the body is decoded only after
\* a success status, and on a non-success status the get raises the transport
\* error without decoding and without a second request.
C8_OneFetchPerGet ==
  \A c \in Threads :
    /\ pc[c] \in {"idle", "encoded", "read"} => reqs[c] = <<>>
    /\ pc[c] \in {"sent", "received"} => reqs[c] = <<ExpectedReq(c)>>
    /\ pc[c] = "done" =>
         reqs[c] = IF slice_to_string(expr[c]).exc = "none"
                   THEN <<ExpectedReq(c)>> ELSE <<>>
    /\ tried[c] # <<>> => IsSuccess(resp[c])
    /\ (pc[c] = "done" /\ result[c].exc = "none") => (IsSuccess(resp[c]) /\ tried[c] # <<>>)
    /\ (pc[c] = "done" /\ resp[c] # NoResp /\ ~IsSuccess(resp[c])) =>
         (result[c] = Raised("HTTPStatusError") /\ tried[c] = <<>>)

\* A get with a cookie was answered 404 and raised after its one request.
C8_Witness ==
  /\ pc[1] = "done"
  /\ resp[1].status = 404
  /\ result[1] = Raised("HTTPStatusError")
  /\ auth_cookie = Some("c2tok")
  /\ Len(reqs[1]) = 1
  /\ reqs[1][1].headers = Some("c2tok")

\* C9: fetch_data tries the slice-frame reading first and returns its result
\* when it succeeds; it tries the container reading only after the slice-frame
\* reading failed with ValueError or RuntimeError; any other failure is raised
\* without a second attempt; when no reading succeeds the get raises.
C9_DecodeOrder ==
  \A c \in Threads :
    /\ (pc[c] = "done" /\ IsSuccess(resp[c])) => tried[c] # <<>>
    /\ tried[c] # <<>> =>
         LET first == tried[c][1] IN
         /\ first.as = "frame"
         /\ Len(tried[c]) <= 2
         /\ first.exc = "none" =>
              /\ Len(tried[c]) = 1
              /\ result[c].exc = "none"
              /\ result[c].value.kind = "bytes"
              /\ result[c].value.data = resp[c].content.data
         /\ first.exc \in {"ValueError", "RuntimeError"} =>
              (Len(tried[c]) = 2 /\ tried[c][2].as = "container")
         /\ first.exc \notin {"none", "ValueError", "RuntimeError"} =>
              (Len(tried[c]) = 1 /\ result[c] = Raised(first.exc))
         /\ (\A i \in 1..Len(tried[c]) : tried[c][i].exc # "none") => result[c].exc # "none"
         /\ (Len(tried[c]) = 2 /\ tried[c][2].exc = "none") =>
              (result[c].exc = "none" /\ result[c].value.kind = "ndarray")

\* Neither reading of the body succeeded and the get raised.
C9_Witness ==
  /\ pc[1] = "done"
  /\ Len(tried[1]) = 2
  /\ tried[1][1].exc = "ValueError"
  /\ tried[1][2].exc # "none"
  /\ result[1].exc = "RuntimeError"

\* What __getitem__(e) returns or raises when run alone and answered with r.
Alone(e, r) ==
  LET s == slice_to_string(e) IN
  IF s.exc # "none" THEN {s}
  ELSE IF ~IsSuccess(r) THEN {Raised("HTTPStatusError")}
  ELSE {Decode(r.content, d).result : d \in decompress2(r.content)}

C10_Inv ==
  \A c \in Threads :
    /\ pc[c] \in {"encoded", "sent", "received"} => slice_[c] = slice_to_string(expr[c])
    /\ pc[c] \in {"sent", "received"} => reqs[c] = <<ExpectedReq(c)>>
    /\ pc[c] = "received" => resp[c] \in FetchResponses(slice_to_string(expr[c]).value)
    /\ pc[c] = "done" => result[c] \in Alone(expr[c], resp[c])

Locals(c) == <<pc[c], expr[c], slice_[c], reqs[c], resp[c], tried[c], result[c]>>

C10_Step ==
  /\ UNCHANGED <<path, sub_url, auth_cookie, meta, hstate>>
  /\ \A c, d \in Threads :
       (c # d /\ Locals(c)' # Locals(c)) => Locals(d)' = Locals(d)

\* C10: under every interleaving of the steps of concurrent gets on one handle,
\* each call sends its own wire string, and returns what it would return run
\* alone on its own expression and its own response; a step of one call changes
\* neither the handle nor anything of another call.
C10_NoInterference == [](C10_Inv) /\ [][C10_Step]_vars

\* Two overlapping calls with different expressions ended differently.
C10_Witness ==
  /\ pc[1] = "done"
  /\ pc[2] = "done"
  /\ expr[1] = Single(IntTerm(1))
  /\ expr[2] = Single(SliceTerm(Some(0), Some(2), None))
  /\ result[1].exc = "none"
  /\ reqs[2] # <<>>
  /\ result[2].exc = "HTTPStatusError"


====
